---- MODULE Spec2Model ----
(***************************************************************************)
(* Model of the IC Lug backend (src/main.py, src/schemas.py): three        *)
(* document collections (member, payment, donation), the create and list   *)
(* endpoints, and the two aggregation endpoints stats_matrix and           *)
(* stats_summary.                                                          *)
(*                                                                         *)
(* Representation.                                                         *)
(*  - A string that the code compares or sorts (full_name, ids) is a       *)
(*    sequence of code points, so that Python's str comparison is the      *)
(*    lexicographic order StrLess below.  Strings that are only stored     *)
(*    (currency, donation name) are TLA+ strings.                          *)
(*  - A field that may be None or absent holds a tagged value: None,       *)
(*    Missing (the key is not in the document), Str(s) or Float(x).        *)
(*  - A float amount x is held as the integer x * 1600: one cent is Cent   *)
(*    = 16 units, so 0.375 is 600 and 10.00 is 16000.  Amounts of the      *)
(*    model are multiples of 1/16, which binary floats hold exactly, so    *)
(*    the sums of the code are exact and round(x, 2) is round-half-even    *)
(*    to a whole number of cents.                                          *)
(*  - An ObjectId is a pair <<collection letter, n>>; str() of it is the   *)
(*    two-character string StrOid.                                         *)
(***************************************************************************)
EXTENDS Integers, Sequences, FiniteSets, TLC

VARIABLES members, payments, donations, request, response

vars == <<members, payments, donations, request, response>>

(* ------------------------------ bounds -------------------------------- *)

MaxMembers == 2
MaxPayments == 2
MaxDonations == 1

(* ------------------------------ values -------------------------------- *)

None == [kind |-> "None"]
Missing == [kind |-> "missing"]
Str(s) == [kind |-> "str", v |-> s]
Float(x) == [kind |-> "float", v |-> x]
IntV(n) == [kind |-> "int", v |-> n]

\* one cent, in units of 1/1600
Cent == 2 * 8

\* the instant datetime.utcnow() returns (the clock is one abstract instant)
UtcNow == [kind |-> "datetime"]

\* Field(..., ge=2000, le=2100) and Field(..., ge=1, le=12) of Payment
YearMin == 2000
YearMax == 2100
MonthMin == 1
MonthMax == 12

\* An ObjectId of a collection, and str() of it: the collection's letter
\* (m, p, d) followed by the digit of n.
ObjectId(coll, n) == <<coll, n>>
CollLetter(coll) ==
  CASE coll = "member" -> 109
    [] coll = "payment" -> 112
    [] coll = "donation" -> 100
StrOid(oid) == <<CollLetter(oid[1]), 48 + oid[2]>>

\* Python's str < str: lexicographic by code point, a proper prefix first.
StrLess(a, b) ==
  \/ /\ Len(a) < Len(b)
     /\ \A i \in 1..Len(a) : a[i] = b[i]
  \/ \E i \in 1..Len(a) :
       /\ i <= Len(b)
       /\ \A j \in 1..(i - 1) : a[j] = b[j]
       /\ a[i] < b[i]
StrLeq(a, b) == a = b \/ StrLess(a, b)

RECURSIVE SumSeq(_)
SumSeq(s) == IF s = <<>> THEN 0 ELSE SumSeq(SubSeq(s, 1, Len(s) - 1)) + s[Len(s)]

\* round(x, 2) on an exactly represented x: the nearest whole number of
\* cents, a tie going to the even one.
Round2(x) ==
  LET q == x \div Cent
      r == x % Cent
  IN  IF 2 * r < Cent THEN q * Cent
      ELSE IF 2 * r > Cent THEN (q + 1) * Cent
      ELSE IF q % 2 = 0 THEN q * Cent ELSE (q + 1) * Cent

\* dict.get(key, default) on a document: the default when the key is absent
Get(doc, key, default) == IF doc[key] = Missing THEN default ELSE doc[key]

\* float(v): a number yields itself, None raises TypeError
FloatFails(v) == v = None
FloatOf(v) == v.v

(* ------------------------------ storage ------------------------------- *)

\* create_document(collection, data): the document gets a fresh _id and is
\* appended to the collection; the id is returned as a string.
NewOid(coll, docs) == ObjectId(coll, Len(docs) + 1)
WithId(oid, data) ==
  [f \in DOMAIN data \cup {"_id"} |-> IF f = "_id" THEN oid ELSE data[f]]
create_document(coll, docs, data) == Append(docs, WithId(NewOid(coll, docs), data))

\* get_documents(collection, filter): the documents matching every equality
\* of the filter, in stored order.
Matches(doc, filt) == \A f \in DOMAIN filt : doc[f] = filt[f]
get_documents(docs, filt) == SelectSeq(docs, LAMBDA d : Matches(d, filt))

NoFilter == [f \in {} |-> 0]
YearFilter(year) == [f \in {"year"} |-> year]

(* ------------------------- schema validation -------------------------- *)

\* Member: full_name is a required str
ValidMember(m) == m.full_name.kind = "str"

\* Payment: year in [2000, 2100], month in [1, 12], amount >= 0
ValidPayment(p) ==
  /\ YearMin <= p.year /\ p.year <= YearMax
  /\ MonthMin <= p.month /\ p.month <= MonthMax
  /\ p.amount.kind = "float" /\ p.amount.v >= 0

\* Donation: amount >= 0
ValidDonation(d) == d.amount.kind = "float" /\ d.amount.v >= 0

(* ----------------------------- aggregation ---------------------------- *)

DictGet(d, k, default) == IF k \in DOMAIN d THEN d[k] ELSE default

\* the loop with an assignment in place of the accumulation:
\* by_key[(member_id, month)] = amount
RECURSIVE ByKeyOverwrite(_)
ByKeyOverwrite(pay) ==
  IF pay = <<>> THEN [k \in {} |-> 0]
  ELSE LET prev == ByKeyOverwrite(SubSeq(pay, 1, Len(pay) - 1))
           p == pay[Len(pay)]
           key == <<p.member_id, p.month>>
           amt == FloatOf(Get(p, "amount", Float(0)))
       IN  [k \in DOMAIN prev \cup {key} |-> IF k = key THEN amt ELSE prev[k]]

\* the loop of stats_matrix over the year's payments:
\* by_key[(member_id, month)] = by_key.get(key, 0) + amount
RECURSIVE ByKey(_)
ByKey(pay) ==
  IF pay = <<>> THEN [k \in {} |-> 0]
  ELSE LET prev == ByKey(SubSeq(pay, 1, Len(pay) - 1))
           p == pay[Len(pay)]
           key == <<p.member_id, p.month>>
           amt == FloatOf(Get(p, "amount", Float(0)))
       IN  [k \in DOMAIN prev \cup {key} |->
              IF k = key THEN DictGet(prev, key, 0) + amt ELSE prev[k]]

\* float(p.get("amount", 0)) raises on one of the documents
AmountFails(docs) ==
  \E i \in 1..Len(docs) : FloatFails(Get(docs[i], "amount", Float(0)))

\* the row with the total left unrounded
MatrixRowUnrounded(m, by_key) ==
  LET mid == StrOid(m._id)
      months == [i \in 1..12 |-> DictGet(by_key, <<mid, i>>, 0)]
  IN  [id |-> mid,
       full_name |-> Get(m, "full_name", None),
       months |-> months,
       total |-> SumSeq(months)]

\* the row filled by months[month - 1] += amount: month 0 lands on the last cell
MatrixRowWrap(m, by_key) ==
  LET mid == StrOid(m._id)
      months == [i \in 1..12 |->
                   DictGet(by_key, <<mid, i>>, 0)
                   + (IF i = 12 THEN DictGet(by_key, <<mid, 0>>, 0) ELSE 0)]
  IN  [id |-> mid,
       full_name |-> Get(m, "full_name", None),
       months |-> months,
       total |-> Round2(SumSeq(months))]

\* the row of one member; months[i] here is months[i - 1] of the Python list
MatrixRow(m, by_key) ==
  LET mid == StrOid(m._id)
      months == [i \in 1..12 |-> DictGet(by_key, <<mid, i>>, 0)]
  IN  [id |-> mid,
       full_name |-> Get(m, "full_name", None),
       months |-> months,
       total |-> Round2(SumSeq(months))]

\* a key that ignores case: (r["full_name"] or "").lower()
Lower(c) == IF 65 <= c /\ c <= 90 THEN c + 32 ELSE c
SortKeyLower(row) ==
  IF row.full_name = None THEN <<>>
  ELSE [i \in 1..Len(row.full_name.v) |-> Lower(row.full_name.v[i])]

\* the key of rows.sort: r["full_name"] or ""
SortKey(row) == IF row.full_name = None THEN <<>> ELSE row.full_name.v

\* an unstable placement: x goes before the rows of equal key
InsertAtUnstable(s, x) ==
  Cardinality({i \in 1..Len(s) : StrLess(SortKey(s[i]), SortKey(x))})

\* where list.sort (stable) puts x among the sorted rows s: after every row
\* whose key is not greater
InsertAt(s, x) == Cardinality({i \in 1..Len(s) : StrLeq(SortKey(s[i]), SortKey(x))})

RECURSIVE SortRows(_)
SortRows(rows) ==
  IF rows = <<>> THEN <<>>
  ELSE LET s == SortRows(SubSeq(rows, 1, Len(rows) - 1))
           x == rows[Len(rows)]
           k == InsertAt(s, x)
       IN  SubSeq(s, 1, k) \o <<x>> \o SubSeq(s, k + 1, Len(s))

Ok(body) == [status |-> 200, body |-> body]
ServerError == [status |-> 500, body |-> "TypeError"]
Unprocessable == [status |-> 422, body |-> "validation error"]

\* rows only for the members that have a payment in the year
stats_matrix_paying(ms, ps, year) ==
  LET mem == get_documents(ms, NoFilter)
      pay == get_documents(ps, YearFilter(year))
  IN  IF AmountFails(pay) THEN ServerError
      ELSE LET by_key == ByKey(pay)
               paying == SelectSeq(mem, LAMBDA m :
                           \E k \in DOMAIN by_key : k[1] = StrOid(m._id))
               rows == [i \in 1..Len(paying) |-> MatrixRow(paying[i], by_key)]
           IN  Ok(SortRows(rows))

\* a lookup of the payment's member that raises when there is none
stats_matrix_strict(ms, ps, year) ==
  LET mem == get_documents(ms, NoFilter)
      pay == get_documents(ps, YearFilter(year))
      ids == { StrOid(mem[i]._id) : i \in 1..Len(mem) }
  IN  IF AmountFails(pay) \/ (\E i \in 1..Len(pay) : pay[i].member_id \notin ids)
        THEN ServerError
      ELSE LET by_key == ByKey(pay)
               rows == [i \in 1..Len(mem) |-> MatrixRow(mem[i], by_key)]
           IN  Ok(SortRows(rows))

stats_matrix(ms, ps, year) ==
  LET mem == get_documents(ms, NoFilter)
      pay == get_documents(ps, YearFilter(year))
  IN  IF AmountFails(pay) THEN ServerError
      ELSE LET by_key == ByKey(pay)
               rows == [i \in 1..Len(mem) |-> MatrixRow(mem[i], by_key)]
           IN  Ok(SortRows(rows))

AmountSum(docs) ==
  SumSeq([i \in 1..Len(docs) |-> FloatOf(Get(docs[i], "amount", Float(0)))])

\* the summary counting the active members only
stats_summary_active(ms, ps, ds, year) ==
  LET members_count == Len(SelectSeq(get_documents(ms, NoFilter), LAMBDA m : m.active))
      pay == get_documents(ps, YearFilter(year))
      don == get_documents(ds, NoFilter)
  IN  IF AmountFails(pay) \/ AmountFails(don) THEN ServerError
      ELSE Ok([members |-> members_count,
               payments_year |-> Round2(AmountSum(pay)),
               donations_total |-> Round2(AmountSum(don))])

stats_summary(ms, ps, ds, year) ==
  LET members_count == Len(get_documents(ms, NoFilter))
      pay == get_documents(ps, YearFilter(year))
      don == get_documents(ds, NoFilter)
  IN  IF AmountFails(pay) \/ AmountFails(don) THEN ServerError
      ELSE Ok([members |-> members_count,
               payments_year |-> Round2(AmountSum(pay)),
               donations_total |-> Round2(AmountSum(don))])

\* d["id"] = str(d.pop("_id", "")) on every listed document
Normalize(doc) ==
  [f \in (DOMAIN doc \ {"_id"}) \cup {"id"} |->
     IF f = "id" THEN StrOid(doc._id) ELSE doc[f]]
Listed(docs) == [i \in 1..Len(docs) |-> Normalize(docs[i])]

\* the filter list_payments builds: a key only for a truthy parameter
TruthyStr(v) == v # None /\ v.v # <<>>
TruthyInt(v) == v # None /\ v.v # 0
ListFilter(member_id, year) ==
  [f \in (IF TruthyStr(member_id) THEN {"member_id"} ELSE {})
         \cup (IF TruthyInt(year) THEN {"year"} ELSE {}) |->
     IF f = "member_id" THEN member_id.v ELSE year.v]

(* ------------------------------ inputs -------------------------------- *)

\* names: "a", "B", "" (upper case sorts before lower case, "" before both)
NameA == <<97>>
NameB == <<66>>
NameEmpty == <<>>

MemberBody(full_name, active) ==
  [full_name |-> full_name, phone |-> None, email |-> None, active |-> active]

MemberInputs ==
  { MemberBody(Str(NameA), TRUE), MemberBody(Str(NameB), FALSE),
    MemberBody(Str(NameEmpty), TRUE), MemberBody(None, TRUE) }

Years == {2024, 2025}

\* the ids the first two members get, as the client sends them back
MemberIds == { StrOid(ObjectId("member", n)) : n \in 1..2 }

PaymentBody(member_id, year, month, amount) ==
  [member_id |-> member_id, year |-> year, month |-> month, amount |-> amount,
   currency |-> "EUR", note |-> None, paid_at |-> None]

\* 0.375, an amount that is not a whole number of cents
Amount == 6 * 100

\* valid bodies: both members, month 3 or 12 of 2024, and one payment of 2025;
\* invalid bodies: month 13 and 0, year 1999, a negative and a null amount
PaymentInputs ==
  { PaymentBody(mid, 2024, mth, Float(Amount)) : mid \in MemberIds, mth \in {3, 12} }
  \cup { PaymentBody(StrOid(ObjectId("member", 1)), 2025, 3, Float(Amount)) }
  \cup { PaymentBody(StrOid(ObjectId("member", 1)), 2024, 13, Float(Amount)),
         PaymentBody(StrOid(ObjectId("member", 1)), 2024, 0, Float(Amount)),
         PaymentBody(StrOid(ObjectId("member", 1)), 1999, 3, Float(Amount)),
         PaymentBody(StrOid(ObjectId("member", 1)), 2024, 3, Float(0 - Amount)),
         PaymentBody(StrOid(ObjectId("member", 1)), 2024, 3, None) }

DonationBody(amount) ==
  [name |-> "donor", amount |-> amount, currency |-> "EUR", purpose |-> None,
   donated_at |-> None]

DonationInputs == { DonationBody(Float(Amount)), DonationBody(Float(0 - Amount)) }

(* ------------------------------ handlers ------------------------------ *)

NoRequest == [op |-> "none"]

Init ==
  /\ members = <<>>
  /\ payments = <<>>
  /\ donations = <<>>
  /\ request = NoRequest
  /\ response = NoRequest

\* POST /members
CreateMember(member) ==
  /\ request' = [op |-> "create_member"]
  /\ IF ValidMember(member)
       THEN /\ Len(members) < MaxMembers
            /\ members' = create_document("member", members, member)
            /\ response' = Ok([id |-> StrOid(NewOid("member", members))])
       ELSE /\ response' = Unprocessable
            /\ UNCHANGED members
  /\ UNCHANGED <<payments, donations>>

\* GET /members
ListMembers ==
  /\ request' = [op |-> "list_members"]
  /\ response' = Ok(Listed(get_documents(members, NoFilter)))
  /\ UNCHANGED <<members, payments, donations>>

\* POST /payments storing the new payment in place of the collection
AddPaymentReplace(payment) ==
  /\ request' = [op |-> "add_payment"]
  /\ IF ValidPayment(payment)
       THEN /\ Len(payments) < MaxPayments
            /\ payments' = create_document("payment", <<>>, payment)
            /\ response' = Ok([id |-> StrOid(NewOid("payment", payments))])
       ELSE /\ response' = Unprocessable
            /\ UNCHANGED payments
  /\ UNCHANGED <<members, donations>>

\* POST /payments
AddPayment(payment) ==
  /\ request' = [op |-> "add_payment"]
  /\ IF ValidPayment(payment)
       THEN LET data == IF payment.paid_at = None
                          THEN [payment EXCEPT !.paid_at = UtcNow]
                          ELSE payment
            IN  /\ Len(payments) < MaxPayments
                /\ payments' = create_document("payment", payments, data)
                /\ response' = Ok([id |-> StrOid(NewOid("payment", payments))])
       ELSE /\ response' = Unprocessable
            /\ UNCHANGED payments
  /\ UNCHANGED <<members, donations>>

\* GET /payments
ListPayments(member_id, year) ==
  /\ request' = [op |-> "list_payments", member_id |-> member_id, year |-> year]
  /\ response' = Ok(Listed(get_documents(payments, ListFilter(member_id, year))))
  /\ UNCHANGED <<members, payments, donations>>

\* POST /donations
AddDonation(donation) ==
  /\ request' = [op |-> "add_donation"]
  /\ IF ValidDonation(donation)
       THEN LET data == IF donation.donated_at = None
                          THEN [donation EXCEPT !.donated_at = UtcNow]
                          ELSE donation
            IN  /\ Len(donations) < MaxDonations
                /\ donations' = create_document("donation", donations, data)
                /\ response' = Ok([id |-> StrOid(NewOid("donation", donations))])
       ELSE /\ response' = Unprocessable
            /\ UNCHANGED donations
  /\ UNCHANGED <<members, payments>>

\* GET /donations
ListDonations ==
  /\ request' = [op |-> "list_donations"]
  /\ response' = Ok(Listed(get_documents(donations, NoFilter)))
  /\ UNCHANGED <<members, payments, donations>>

\* GET /stats/matrix
StatsMatrix(year) ==
  /\ request' = [op |-> "stats_matrix", year |-> year]
  /\ response' = stats_matrix(members, payments, year)
  /\ UNCHANGED <<members, payments, donations>>

\* GET /stats/summary
StatsSummary(year) ==
  /\ request' = [op |-> "stats_summary", year |-> year]
  /\ response' = stats_summary(members, payments, donations, year)
  /\ UNCHANGED <<members, payments, donations>>

Next ==
  \/ \E m \in MemberInputs : CreateMember(m)
  \/ ListMembers
  \/ \E p \in PaymentInputs : AddPayment(p)
  \/ \E mid \in {None, Str(StrOid(ObjectId("member", 1)))}, y \in {None, IntV(2024)} :
       ListPayments(mid, y)
  \/ \E d \in DonationInputs : AddDonation(d)
  \/ ListDonations
  \/ \E y \in Years : StatsMatrix(y)
  \/ \E y \in Years : StatsSummary(y)

Spec == Init /\ [][Next]_vars

(* ---------------- aggregation over documents of any origin ------------- *)

\* The collections are a MongoDB database: documents written by another
\* client are not schema-checked.  SpecRaw starts from such a database and
\* applies the two aggregation endpoints to it.

SeqsUpTo(S, n) == UNION { [1..k -> S] : k \in 0..n }
Stored(coll, bodies) ==
  [i \in 1..Len(bodies) |-> WithId(ObjectId(coll, i), bodies[i])]

\* full_name null, absent, "a" or "B"
RawMemberInputs ==
  { MemberBody(n, TRUE) : n \in {None, Missing, Str(NameA), Str(NameB)} }

RawPayment(member_id, month, amount) ==
  [member_id |-> member_id, year |-> 2024, month |-> month, amount |-> amount,
   currency |-> "EUR", note |-> None, paid_at |-> UtcNow]

\* month 3 for both members; month 0 and 13; amount null and absent
RawPaymentInputs ==
  { RawPayment(mid, 3, Float(Amount)) : mid \in MemberIds }
  \cup { RawPayment(StrOid(ObjectId("member", 1)), mth, Float(Amount)) : mth \in {0, 13} }
  \cup { RawPayment(StrOid(ObjectId("member", 1)), 3, a) : a \in {None, Missing} }

\* amount null and absent
RawDonationInputs ==
  { [DonationBody(a) EXCEPT !.donated_at = UtcNow] : a \in {None, Missing} }

InitRaw ==
  /\ \E b \in SeqsUpTo(RawMemberInputs, MaxMembers) : members = Stored("member", b)
  /\ \E b \in SeqsUpTo(RawPaymentInputs, MaxPayments) : payments = Stored("payment", b)
  /\ \E b \in SeqsUpTo(RawDonationInputs, MaxDonations) : donations = Stored("donation", b)
  /\ request = NoRequest
  /\ response = NoRequest

NextRaw ==
  \/ \E y \in Years : StatsMatrix(y)
  \/ \E y \in Years : StatsSummary(y)

SpecRaw == InitRaw /\ [][NextRaw]_vars

(* --------------------------- reference sums --------------------------- *)

\* the amount a stored document counts for: its number, 0 when it has none
AmountOf(doc) == IF doc.amount.kind = "float" THEN doc.amount.v ELSE 0

RECURSIVE SumIdx(_, _)
SumIdx(docs, S) ==
  IF S = {} THEN 0
  ELSE LET i == CHOOSE j \in S : TRUE
       IN  AmountOf(docs[i]) + SumIdx(docs, S \ {i})

MemberIdOf(i) == StrOid(members[i]._id)
IsMemberId(mid) == \E i \in 1..Len(members) : MemberIdOf(i) = mid

\* the stored payments of one member, year and month
CellPayments(mid, year, mth) ==
  { i \in 1..Len(payments) :
      /\ payments[i].year = year
      /\ payments[i].member_id = mid
      /\ payments[i].month = mth }
YearPayments(year) == { i \in 1..Len(payments) : payments[i].year = year }

Abs(x) == IF x < 0 THEN 0 - x ELSE x

MatrixDone == request.op = "stats_matrix" /\ response.status = 200
SummaryDone == request.op = "stats_summary" /\ response.status = 200

(* ------------------------------- claims ------------------------------- *)

\* C1: stats_matrix returns exactly one row per stored member, with the
\* member's id as a string, and no other row; a member with no payment of
\* the year has twelve zero months and total zero.
C1_OneRowPerMember ==
  request.op = "stats_matrix" =>
    /\ response.status = 200
    /\ Len(response.body) = Len(members)
    /\ \A i \in 1..Len(members) :
         Cardinality({j \in 1..Len(response.body) :
                        response.body[j].id = MemberIdOf(i)}) = 1
    /\ \A j \in 1..Len(response.body) :
         /\ IsMemberId(response.body[j].id)
         /\ Len(response.body[j].months) = 12
         /\ (\A i \in YearPayments(request.year) :
               payments[i].member_id # response.body[j].id)
            => /\ \A k \in 1..12 : response.body[j].months[k] = 0
               /\ response.body[j].total = 0

C1_Witness ==
  /\ MatrixDone
  /\ Len(members) = 2
  /\ \E j \in 1..2 : response.body[j].total > 0
  /\ \E j \in 1..2 : response.body[j].total = 0

\* C2: months of month k is the sum of the amounts of exactly the stored
\* payments of the requested year, the row's member and month k.
C2_CellIsSum ==
  MatrixDone =>
    \A j \in 1..Len(response.body) : \A k \in 1..12 :
      response.body[j].months[k] =
        SumIdx(payments, CellPayments(response.body[j].id, request.year, k))

C2_Witness ==
  /\ MatrixDone
  /\ \E j \in 1..Len(response.body) : response.body[j].months[3] = 2 * Amount

\* C3: total is the sum of the row's twelve months rounded to 2 decimals:
\* a whole number of cents, the nearest to the sum.
C3_TotalIsRoundedSum ==
  MatrixDone =>
    \A j \in 1..Len(response.body) :
      /\ response.body[j].total % Cent = 0
      /\ 2 * Abs(response.body[j].total - SumSeq(response.body[j].months)) <= Cent

C3_Witness ==
  /\ MatrixDone
  /\ \E j \in 1..Len(response.body) :
       /\ response.body[j].months[3] > 0
       /\ response.body[j].total # SumSeq(response.body[j].months)

\* the stored payments without those whose member_id is no stored member's id
KnownPayments == SelectSeq(payments, LAMBDA p : IsMemberId(p.member_id))
HasOrphan(year) ==
  \E i \in YearPayments(year) : ~IsMemberId(payments[i].member_id)

\* C5: a payment whose member_id matches no stored member does not make
\* stats_matrix fail, gets no row, and leaves the rows as they would be
\* without it.
C5_OrphanIgnored ==
  request.op = "stats_matrix" =>
    /\ response.status = 200
    /\ response = stats_matrix(members, KnownPayments, request.year)
    /\ \A j \in 1..Len(response.body) : IsMemberId(response.body[j].id)

C5_Witness ==
  /\ MatrixDone
  /\ HasOrphan(request.year)
  /\ \E j \in 1..Len(response.body) : response.body[j].total > 0

\* C6 as stated: members is the member count, payments_year the sum of the
\* year's payments and donations_total the sum of all donations.
C6_SummaryExactSums ==
  request.op = "stats_summary" =>
    /\ response.status = 200
    /\ response.body.members = Len(members)
    /\ response.body.payments_year = SumIdx(payments, YearPayments(request.year))
    /\ response.body.donations_total = SumIdx(donations, 1..Len(donations))
    /\ \A y \in Years :
         LET other == stats_summary(members, payments, donations, y)
         IN  /\ other.status = 200
             /\ other.body.members = response.body.members
             /\ other.body.donations_total = response.body.donations_total

\* C6, amended: the two sums are rounded to 2 decimals; members and
\* donations_total do not depend on the year.
C6_SummaryRoundedSums ==
  request.op = "stats_summary" =>
    /\ response.status = 200
    /\ response.body.members = Len(members)
    /\ response.body.payments_year =
         Round2(SumIdx(payments, YearPayments(request.year)))
    /\ response.body.donations_total = Round2(SumIdx(donations, 1..Len(donations)))
    /\ \A y \in Years :
         LET other == stats_summary(members, payments, donations, y)
         IN  /\ other.status = 200
             /\ other.body.members = response.body.members
             /\ other.body.donations_total = response.body.donations_total

C6_Witness ==
  /\ SummaryDone
  /\ \E i \in 1..Len(members) : ~members[i].active
  /\ \E i \in 1..Len(payments) : payments[i].year # request.year
  /\ response.body.payments_year > 0
  /\ response.body.donations_total > 0

IsPrefix(s, t) == Len(s) <= Len(t) /\ SubSeq(t, 1, Len(s)) = s

CreateOps == {"create_member", "add_payment", "add_donation"}

\* C7: records are only ever created: a step keeps every stored record, a
\* list or stats call changes no collection, and a create that succeeds
\* adds one record to its own collection only.
C7_OnlyCreated ==
  [][ /\ IsPrefix(members, members')
      /\ IsPrefix(payments, payments')
      /\ IsPrefix(donations, donations')
      /\ request'.op \notin CreateOps
           => UNCHANGED <<members, payments, donations>>
      /\ (request'.op = "create_member" /\ response'.status = 200)
           => Len(members') = Len(members) + 1 /\ UNCHANGED <<payments, donations>>
      /\ (request'.op = "add_payment" /\ response'.status = 200)
           => Len(payments') = Len(payments) + 1 /\ UNCHANGED <<members, donations>>
      /\ (request'.op = "add_donation" /\ response'.status = 200)
           => Len(donations') = Len(donations) + 1 /\ UNCHANGED <<members, payments>>
    ]_vars

C7_Witness ==
  /\ request.op = "add_payment" /\ response.status = 200
  /\ Len(members) >= 1 /\ Len(payments) >= 2 /\ Len(donations) >= 1

\* rows with equal sort keys keep the order in which their members are stored
StableTies(rows, ms) ==
  \A i, j \in 1..Len(rows) :
    (i < j /\ SortKey(rows[i]) = SortKey(rows[j])) =>
      \E a, b \in 1..Len(ms) :
        a < b /\ StrOid(ms[a]._id) = rows[i].id /\ StrOid(ms[b]._id) = rows[j].id

NameOrEmpty(row) == IF row.full_name.kind = "str" THEN row.full_name.v ELSE <<>>

\* C4: the rows are in non-decreasing order of full_name by code point, a
\* null or absent full_name counting as "", so before every non-empty name.
C4_SortedByName ==
  MatrixDone =>
    \A i, j \in 1..Len(response.body) :
      /\ i < j => StrLeq(NameOrEmpty(response.body[i]), NameOrEmpty(response.body[j]))
      /\ (response.body[i].full_name = None /\ NameOrEmpty(response.body[j]) # <<>>)
           => i < j

C4_Witness ==
  /\ MatrixDone
  /\ Len(members) = 2
  /\ members[1].full_name = Str(NameA)
  /\ members[2].full_name \in {None, Missing}
  /\ response.body[1].full_name = None
  /\ response.body[2].full_name = Str(NameA)

\* C8: on documents whose amount is absent or null, or whose full_name is
\* absent or null, stats_matrix and stats_summary return a result.
C8_NullTolerated ==
  request.op \in {"stats_matrix", "stats_summary"} => response.status = 200

SumTotals(rows) == SumSeq([j \in 1..Len(rows) |-> rows[j].total])
SumCells(rows) == SumSeq([j \in 1..Len(rows) |-> SumSeq(rows[j].months)])

InRange(p) == MonthMin <= p.month /\ p.month <= MonthMax
NullAmount(docs, S) == \E i \in S : docs[i].amount = None
\* the year's payments that have a month in 1..12 and a stored member's id
Counted(year) ==
  { i \in YearPayments(year) : InRange(payments[i]) /\ IsMemberId(payments[i].member_id) }
SummaryOf(year) == stats_summary(members, payments, donations, year)

====
